---- MODULE Spec2Model ----
(***************************************************************************)
(* State-machine model of nodebox/run/task.py: the command line launcher   *)
(* that reads one line of JSON options from standard input, picks the      *)
(* headless or windowed mode, wires the delegate and the script controller *)
(* and watches standard input for CANCEL lines.                            *)
(*                                                                         *)
(* Python strings are sequences of one-character strings, so that rsplit,  *)
(* strip and the substring test are computed rather than assumed.  A line  *)
(* of JSON is a sequence of tokens [t, v]; json.loads is the operator      *)
(* JsonLoads below (flat fragment: scalars, arrays of scalars, objects     *)
(* with scalar members).                                                   *)
(***************************************************************************)
EXTENDS Integers, Sequences, FiniteSets, TLC

\* ------------------------------------------------------------------------
\* Bounds of the model
\* ------------------------------------------------------------------------
\* lines the supervising process writes to standard input after startup
MaxLines == 2
\* engine exports started over one run (headless export plus _export calls)
MaxExports == 2
\* deferred or repeated runScript calls
MaxRuns == 2
\* largest frame total handed to exportProgress
MaxTotal == 20

\* ------------------------------------------------------------------------
\* Python values
\* ------------------------------------------------------------------------
None == [t |-> "none", v |-> <<>>]
PyStr(chars) == [t |-> "str", v |-> chars]
PyTrue == [t |-> "true", v |-> <<>>]
PyFalse == [t |-> "false", v |-> <<>>]
\* a JSON number keeps its digits
PyNum(digits) == [t |-> "num", v |-> digits]
PyList(items) == [t |-> "list", v |-> items]
PyDict(f) == [t |-> "dict", v |-> f]

\* dictionary keys used by the launcher
K_file == <<"f", "i", "l", "e">>
K_export == <<"e", "x", "p", "o", "r", "t">>
K_activate == <<"a", "c", "t", "i", "v", "a", "t", "e">>
K_format == <<"f", "o", "r", "m", "a", "t">>

\* Python truth value of a value (`if opts['export']`, `if opts['activate']`)
Truthy(x) ==
    CASE x.t = "str" -> Len(x.v) > 0
      [] x.t = "true" -> TRUE
      [] x.t = "false" -> FALSE
      [] x.t = "none" -> FALSE
      [] x.t = "num" -> x.v # <<"0">>
      [] x.t = "list" -> Len(x.v) > 0
      [] x.t = "dict" -> DOMAIN x.v # {}

\* ------------------------------------------------------------------------
\* json.loads over token sequences
\* ------------------------------------------------------------------------
Tok(t) == [t |-> t, v |-> <<>>]
TStr(chars) == [t |-> "str", v |-> chars]
TNum(digits) == [t |-> "num", v |-> digits]
TBad == Tok("bad")

IsScalarTok(tok) == tok.t \in {"str", "true", "false", "null", "num"}

ScalarValue(tok) ==
    CASE tok.t = "str" -> PyStr(tok.v)
      [] tok.t = "true" -> PyTrue
      [] tok.t = "false" -> PyFalse
      [] tok.t = "null" -> None
      [] tok.t = "num" -> PyNum(tok.v)

Failure == [ok |-> FALSE, value |-> None]
Success(x) == [ok |-> TRUE, value |-> x]

\* items of an array, toks[i..] up to the closing bracket, which must be last
RECURSIVE ParseItems(_, _, _)
ParseItems(toks, i, acc) ==
    IF i + 1 > Len(toks) THEN Failure
    ELSE IF ~IsScalarTok(toks[i]) THEN Failure
    ELSE LET acc2 == Append(acc, ScalarValue(toks[i]))
         IN  IF toks[i + 1].t = "]"
             THEN IF i + 1 = Len(toks) THEN Success(PyList(acc2)) ELSE Failure
             ELSE IF toks[i + 1].t = ","
             THEN ParseItems(toks, i + 2, acc2)
             ELSE Failure

\* members of an object, toks[i..] up to the closing brace, which must be last;
\* a repeated key keeps its last value
RECURSIVE ParseMembers(_, _, _)
ParseMembers(toks, i, acc) ==
    IF i + 3 > Len(toks) THEN Failure
    ELSE IF toks[i].t # "str" \/ toks[i + 1].t # ":" \/ ~IsScalarTok(toks[i + 2])
    THEN Failure
    ELSE LET key == toks[i].v
             val == ScalarValue(toks[i + 2])
             acc2 == [k \in DOMAIN acc \cup {key} |-> IF k = key THEN val ELSE acc[k]]
         IN  IF toks[i + 3].t = "}"
             THEN IF i + 3 = Len(toks) THEN Success(PyDict(acc2)) ELSE Failure
             ELSE IF toks[i + 3].t = ","
             THEN ParseMembers(toks, i + 4, acc2)
             ELSE Failure

EmptyDict == [k \in {} |-> None]

JsonLoads(toks) ==
    IF Len(toks) = 0 THEN Failure
    ELSE IF Len(toks) = 1
    THEN IF IsScalarTok(toks[1]) THEN Success(ScalarValue(toks[1])) ELSE Failure
    ELSE IF toks[1].t = "["
    THEN IF Len(toks) = 2
         THEN IF toks[2].t = "]" THEN Success(PyList(<<>>)) ELSE Failure
         ELSE ParseItems(toks, 2, <<>>)
    ELSE IF toks[1].t = "{"
    THEN IF Len(toks) = 2
         THEN IF toks[2].t = "}" THEN Success(PyDict(EmptyDict)) ELSE Failure
         ELSE ParseMembers(toks, 2, EmptyDict)
    ELSE Failure

\* ------------------------------------------------------------------------
\* Inputs: startup lines, export paths, lines sent after startup
\* ------------------------------------------------------------------------
A_py == <<"a", ".", "p", "y">>
F_png == <<"o", ".", "p", "n", "g">>
F_gif == <<"o", ".", "g", "i", "f">>
F_mov == <<"o", ".", "m", "o", "v">>
F_two == <<"a", ".", "p", "n", "g", ".", "g", "i", "f">>
F_bare == <<"o", "u", "t">>
Ext_mov == <<"m", "o", "v">>
Ext_gif == <<"g", "i", "f">>
Ext_pdf == <<"p", "d", "f">>

Pair(k, tok) == <<TStr(k), Tok(":"), tok>>
Obj1(p) == <<Tok("{")>> \o p \o <<Tok("}")>>
Obj2(p, q) == <<Tok("{")>> \o p \o <<Tok(",")>> \o q \o <<Tok("}")>>
Obj3(p, q, r) == <<Tok("{")>> \o p \o <<Tok(",")>> \o q \o <<Tok(",")>> \o r \o <<Tok("}")>>
FileP == Pair(K_file, TStr(A_py))
ExportP(tok) == Pair(K_export, tok)
ActivateP(tok) == Pair(K_activate, tok)

\* first lines of standard input that json.loads rejects
MalformedLines ==
    { <<>>,
      <<TBad>>,
      <<Tok("{")>> \o FileP,
      <<Tok("{")>> \o FileP \o <<Tok(",")>> \o <<Tok("}")>>,
      Obj1(FileP) \o <<TBad>> }

\* first lines that are JSON but no options object with an export field
IncompleteLines ==
    { Obj1(FileP),
      Obj2(FileP, ActivateP(Tok("false"))),
      <<Tok("["), Tok("]")>>,
      <<TStr(F_png)>> }

\* first lines that are an options object with an export field
OptionLines ==
    { Obj3(FileP, ExportP(TStr(<<>>)), ActivateP(Tok("false"))),
      Obj2(FileP, ExportP(TStr(<<>>))),
      Obj1(ExportP(Tok("false"))),
      Obj2(FileP, ExportP(TStr(F_png))),
      Obj2(FileP, ExportP(TStr(F_gif))),
      Obj2(FileP, ExportP(TStr(F_two))),
      Obj2(FileP, ExportP(TStr(F_bare))),
      Obj1(ExportP(TStr(F_png))) }

StartupLines == MalformedLines \cup IncompleteLines \cup OptionLines

L_cancel == <<"C", "A", "N", "C", "E", "L">>
L_padded == <<" ", "C", "A", "N", "C", "E", "L", "!", " ">>
L_other == <<"c", "a", "n", "c", "e", "l">>
LaterLines == {L_padded, L_other}

\* ------------------------------------------------------------------------
\* String operations
\* ------------------------------------------------------------------------
\* index of the last "." at or before position i, 0 when there is none
RECURSIVE LastDot(_, _)
LastDot(s, i) ==
    IF i = 0 THEN 0
    ELSE IF s[i] = "." THEN i
    ELSE LastDot(s, i - 1)

\* s.rsplit('.', 1): one split at the last dot, the whole string when none
RSplit1(s) ==
    LET d == LastDot(s, Len(s))
    IN  IF d = 0 THEN <<s>>
        ELSE <<SubSeq(s, 1, d - 1), SubSeq(s, d + 1, Len(s))>>

\* s.strip() for the blank character
RECURSIVE Strip(_)
Strip(s) ==
    IF Len(s) = 0 THEN s
    ELSE IF s[1] = " " THEN Strip(Tail(s))
    ELSE IF s[Len(s)] = " " THEN Strip(SubSeq(s, 1, Len(s) - 1))
    ELSE s

\* needle in s
Contains(s, needle) ==
    \E i \in 0..(Len(s) - Len(needle)) :
        SubSeq(s, i + 1, i + Len(needle)) = needle

\* n copies of the character c
RECURSIVE Repeat(_, _)
Repeat(c, n) == IF n <= 0 THEN <<>> ELSE <<c>> \o Repeat(c, n - 1)

\* ------------------------------------------------------------------------
\* Observable effects of one handler, in program order
\* ------------------------------------------------------------------------
\* a string written to a stream: whether it starts with ERASER, its text, and
\* the values formatted into it (the frame total and the bar of the progress line)
NoMsg == [eraser |-> FALSE, text |-> "", total |-> 0, dots |-> <<>>]
Msg(text) == [eraser |-> FALSE, text |-> text, total |-> 0, dots |-> <<>>]
Ev(op) == [op |-> op, stream |-> "", data |-> NoMsg, quit |-> FALSE]
Write(stream, data) == [op |-> "write", stream |-> stream, data |-> data, quit |-> FALSE]
Flush(stream) == [op |-> "flush", stream |-> stream, data |-> NoMsg, quit |-> FALSE]
DoneEv(quit) == [op |-> "done", stream |-> "", data |-> NoMsg, quit |-> quit]
\* ERASER = '\r%s\r'%(' '*80)
ERASER == [eraser |-> TRUE, text |-> "", total |-> 0, dots |-> <<>>]

\* no call of vm.export yet
NoCall == [kind |-> "", fname |-> <<>>, opts |-> None]

HasEv(fx, op) == \E i \in 1..Len(fx) : fx[i].op = op
CountEv(fx, op) == Cardinality({i \in 1..Len(fx) : fx[i].op = op})

\* ------------------------------------------------------------------------
\* State
\* ------------------------------------------------------------------------
VARIABLES
    pc,             \* "main", "loop" (event loop running), "exited", "terminated"
    stdinLine,      \* the first line of standard input
    opts,           \* the options dict (one object shared by module, delegate, script)
    mode,           \* "none" until resolved, then "headless" or "windowed"
    exitStatus,     \* -1 while running
    delegate,       \* TRUE once the app and its delegate exist
    launched,       \* applicationDidFinishLaunching_ has run
    script,         \* the delegate's script outlet: "none", "nib" (from the nib, its
                    \* initWithOpts_forMode_ raised at opts['file']), "ready"
    windowed,       \* NodeBoxScript.windowed
    window,         \* "none", "hidden", "shown", "closed"
    runPending,     \* AppHelper.callAfter(self.script.runScript) not yet run
    runs,           \* runScript calls so far
    animationTimer, \* the document's animation timer is not None
    session,        \* vm.session is set
    sessionCancelled, \* vm.session.cancel() was called on the current session
    metadata,       \* vm.metadata
    exportLog,      \* [count, call]: how many calls of vm.export, and the last one
    pipe,           \* lines written to standard input and not yet read from the fd
    stdiobuf,       \* lines read from the fd into sys.stdin's buffer, not yet returned
    eof,            \* standard input was closed by the writer
    armed,          \* waitForDataInBackgroundAndNotify is registered
    sent,           \* [lines, cancels]: lines written to standard input after startup
                    \* and how many of them contain CANCEL
    cancelCalls,    \* calls of NodeBoxScript.cancel
    last            \* the last handler that ran and its effects

vars == <<pc, stdinLine, opts, mode, exitStatus, delegate, launched, script, windowed,
          window, runPending, runs, animationTimer, session, sessionCancelled, metadata,
          exportLog, pipe, stdiobuf, eof, armed, sent, cancelCalls, last>>

Last(op, fx) ==
    [op |-> op, fx |-> fx, ok |-> TRUE, hadSession |-> FALSE, hadTimer |-> FALSE,
     wasLaunched |-> FALSE, raised |-> FALSE, args |-> <<>>]

Init ==
    /\ pc = "main"
    /\ stdinLine \in StartupLines
    /\ opts = None
    /\ mode = "none"
    /\ exitStatus = -1
    /\ delegate = FALSE
    /\ launched = FALSE
    /\ script = "none"
    /\ windowed = FALSE
    /\ window = "none"
    /\ runPending = FALSE
    /\ runs = 0
    /\ animationTimer = FALSE
    /\ session = FALSE
    /\ sessionCancelled = FALSE
    /\ metadata = None
    /\ exportLog = [count |-> 0, call |-> NoCall]
    /\ pipe = <<>>
    /\ stdiobuf = <<>>
    /\ eof = FALSE
    /\ armed = FALSE
    /\ sent = [lines |-> 0, cancels |-> 0]
    /\ cancelCalls = 0
    /\ last = Last("init", <<>>)

\* ------------------------------------------------------------------------
\* Startup: the __main__ block
\* ------------------------------------------------------------------------
KeyIn(o, k) == k \in DOMAIN o.v

\* variant: the export field is tested for being a string, not for being non-empty
ModeOfPresence(o) == IF o.v[K_export].t = "str" THEN "headless" ELSE "windowed"

\* mode = 'headless' if opts['export'] else 'windowed'
ModeOf(o) == IF Truthy(o.v[K_export]) THEN "headless" ELSE "windowed"

\* what the try block does with the first line: "ok", or the exception raised;
\* only ValueError is caught
StartupOutcome(line) ==
    LET r == JsonLoads(line)
    IN  IF ~r.ok THEN "ValueError"
        ELSE IF r.value.t # "dict" THEN "TypeError"
        ELSE IF ~KeyIn(r.value, K_export) THEN "KeyError"
        ELSE "ok"

\* sys.exit(1) of the except clause
BadArgsStatus == 1
\* exit status of the interpreter when an exception reaches the top level
UncaughtStatus == 1

MainOutcome(line, badStatus) ==
    LET r == JsonLoads(line)
        out == StartupOutcome(line)
    IN  CASE out = "ValueError" ->
               [pc |-> "exited", exitStatus |-> badStatus, opts |-> None, mode |-> "none",
                delegate |-> FALSE, raised |-> FALSE,
                fx |-> <<Write("stdout", Msg("bad args"))>>]
          [] out \in {"TypeError", "KeyError"} ->
               [pc |-> "exited", exitStatus |-> UncaughtStatus, opts |-> r.value,
                mode |-> "none", delegate |-> FALSE, raised |-> TRUE,
                fx |-> <<Write("stderr", Msg(out))>>]
          [] out = "ok" ->
               [pc |-> "loop", exitStatus |-> -1, opts |-> r.value,
                mode |-> ModeOf(r.value), delegate |-> TRUE, raised |-> FALSE,
                fx |-> <<Ev("sharedApplicationForMode_"), Ev("initWithOpts_forMode_"),
                         Ev("waitForDataInBackgroundAndNotify"), Ev("runEventLoop")>>]

\* variant: the except clause leaves with status 0
MainResultExitZero(line) == MainOutcome(line, 0)

MainResult(line) == MainOutcome(line, BadArgsStatus)

Main ==
    /\ pc = "main"
    /\ LET m == MainResult(stdinLine)
       IN  /\ pc' = m.pc
           /\ exitStatus' = m.exitStatus
           /\ opts' = m.opts
           /\ mode' = m.mode
           /\ delegate' = m.delegate
           /\ armed' = m.delegate
           /\ last' = [Last("main", m.fx) EXCEPT !.raised = m.raised]
    /\ UNCHANGED <<stdinLine, launched, script, windowed, window, runPending, runs,
                   animationTimer, session, sessionCancelled, metadata, exportLog,
                   pipe, stdiobuf, eof, sent, cancelCalls>>

\* ------------------------------------------------------------------------
\* The script controller
\* ------------------------------------------------------------------------
DictSet(o, k, x) == PyDict([j \in DOMAIN o.v \cup {k} |-> IF j = k THEN x ELSE o.v[j]])
\* o.update(u)
DictUpdate(o, u) ==
    PyDict([j \in DOMAIN o.v \cup DOMAIN u.v |-> IF j \in DOMAIN u.v THEN u.v[j] ELSE o.v[j]])

MovieFormats == {Ext_mov, Ext_gif}

\* variant: export works on the stored dict itself, opts = self.opts
exportInPlace(o) ==
    LET fname == o.v[K_export]
    IN  IF fname.t # "str"
        THEN [raised |-> TRUE, stored |-> o, metadata |-> None, call |-> NoCall]
        ELSE LET parts == RSplit1(fname.v)
             IN  IF Len(parts) < 2
                 THEN [raised |-> TRUE, stored |-> o, metadata |-> None, call |-> NoCall]
                 ELSE LET same == DictSet(o, K_format, PyStr(parts[2]))
                          kind == IF parts[2] \in MovieFormats THEN "movie" ELSE "image"
                      IN  [raised |-> FALSE, stored |-> same, metadata |-> same,
                           call |-> [kind |-> kind, fname |-> fname.v, opts |-> same]]

\* NodeBoxScript.export on the stored options o: the stored options after the
\* call, the copy handed to the engine and the vm.export call, or the exception
\* of fname.rsplit('.',1)[1]
export(o) ==
    LET fname == o.v[K_export]
    IN  IF fname.t # "str"
        THEN [raised |-> TRUE, stored |-> o, metadata |-> None, call |-> NoCall]
        ELSE LET parts == RSplit1(fname.v)
             IN  IF Len(parts) < 2
                 THEN [raised |-> TRUE, stored |-> o, metadata |-> None, call |-> NoCall]
                 ELSE LET copy == DictSet(o, K_format, PyStr(parts[2]))
                          kind == IF parts[2] \in MovieFormats THEN "movie" ELSE "image"
                      IN  [raised |-> FALSE, stored |-> o, metadata |-> copy,
                           call |-> [kind |-> kind, fname |-> fname.v, opts |-> copy]]

\* variant: the export key is set before the overrides are merged
mergeOptsExportFirst(o, fname, overrides) ==
    DictUpdate(DictSet(o, K_export, PyStr(fname)), overrides)

\* NodeBoxScript._export: self.opts.update(opts); self.opts['export'] = fname
mergeOpts(o, fname, overrides) ==
    DictSet(DictUpdate(o, overrides), K_export, PyStr(fname))

\* variant: the flag is set for the other mode
windowedFlagHeadless(m) == m = "headless"

\* NodeBoxScript.initWithOpts_forMode_: self.windowed = mode == 'windowed'
windowedFlag(m) == m = "windowed"

\* variant: the quit argument is ignored
doneIgnoresQuit(m, quit) == m = "headless"

\* ScriptAppDelegate.done: whether NSApp().terminate_ is called
done(m, quit) == m = "headless" \/ quit

\* NodeBoxScript.echo
RECURSIVE echoChunks(_)
echoChunks(output) ==
    IF Len(output) = 0 THEN <<>>
    ELSE LET stream == IF output[1].isErr THEN "stderr" ELSE "stdout"
         IN  <<Write(stream, output[1].data), Flush(stream)>> \o echoChunks(Tail(output))

echo(output) == <<Write("stderr", ERASER)>> \o echoChunks(output)

\* variant: done() is called before the output is echoed
exportStatusDoneFirst(ok, output) ==
    IF ok THEN echo(output)
    ELSE <<Write("stderr", Msg("\\r")), Flush("stderr"), DoneEv(FALSE)>> \o echo(output)

\* NodeBoxScript.exportStatus: its effects, ending with the done() call on failure
exportStatus(ok, output) ==
    IF ok THEN echo(output)
    ELSE <<Write("stderr", Msg("\\r")), Flush("stderr")>> \o echo(output) \o <<DoneEv(FALSE)>>

\* variant: the windowed branch is an `if`, not an `elif`
cancelAlwaysQuits(hasSession, hasTimer, isWindowed) ==
    LET fwd == IF hasSession THEN <<Ev("session.cancel")>> ELSE <<>>
        stop == IF hasTimer THEN <<Ev("stopScript")>> ELSE <<>>
    IN  IF isWindowed THEN fwd \o stop \o <<DoneEv(TRUE)>> ELSE fwd \o stop

\* variant: the last branch does not test self.windowed
cancelQuitsInAnyMode(hasSession, hasTimer, isWindowed) ==
    LET fwd == IF hasSession THEN <<Ev("session.cancel")>> ELSE <<>>
    IN  IF hasTimer THEN fwd \o <<Ev("stopScript")>>
        ELSE fwd \o <<DoneEv(TRUE)>>

\* NodeBoxScript.cancel
cancel(hasSession, hasTimer, isWindowed) ==
    LET fwd == IF hasSession THEN <<Ev("session.cancel")>> ELSE <<>>
    IN  IF hasTimer THEN fwd \o <<Ev("stopScript")>>
        ELSE IF isWindowed THEN fwd \o <<DoneEv(TRUE)>>
        ELSE fwd

\* whether the effects of a handler end the process: a done() call that terminates
Terminates(fx, m) == \E i \in 1..Len(fx) : fx[i].op = "done" /\ done(m, fx[i].quit)

\* ------------------------------------------------------------------------
\* The engine and the document class (outside task.py)
\* ------------------------------------------------------------------------
\* Sandbox.export: records the call; a session is in progress afterwards
EngineExport(log, call) ==
    [log |-> [count |-> log.count + 1, call |-> call], session |-> TRUE]

\* NodeBoxDocument.stopScript: the animation loop is stopped
StopScript(timer) == FALSE

\* results the engine reports to exportStatus
Chunk(isErr, text) == [isErr |-> isErr, data |-> Msg(text)]
StatusOutputs ==
    { <<>>, <<Chunk(FALSE, "out"), Chunk(TRUE, "err")>> }

\* ------------------------------------------------------------------------
\* Handlers run by the event loop
\* ------------------------------------------------------------------------
Terminate ==
    /\ pc' = "terminated"
    /\ exitStatus' = 0

\* ScriptAppDelegate.applicationDidFinishLaunching_
applicationDidFinishLaunching_ ==
    /\ pc = "loop"
    /\ ~launched
    /\ launched' = TRUE
    /\ IF mode = "headless"
       THEN /\ IF ~KeyIn(opts, K_file)
               THEN \* KeyError in NodeBoxScript.initWithOpts_forMode_: no script is
                    \* assigned to the outlet
                    /\ last' = [Last("applicationDidFinishLaunching_", <<>>)
                                   EXCEPT !.raised = TRUE]
                    /\ UNCHANGED <<script, windowed, opts, metadata, exportLog,
                                   session, sessionCancelled>>
               ELSE LET e == export(opts)
                        eng == EngineExport(exportLog, e.call)
                    IN  /\ script' = "ready"
                        /\ windowed' = windowedFlag(mode)
                        /\ opts' = e.stored
                        /\ IF e.raised
                           THEN /\ last' = [Last("applicationDidFinishLaunching_",
                                                 <<Ev("initScript")>>)
                                               EXCEPT !.raised = TRUE]
                                /\ UNCHANGED <<metadata, exportLog, session,
                                               sessionCancelled>>
                           ELSE /\ last' = Last("applicationDidFinishLaunching_",
                                                <<Ev("initScript"), Ev("vm.export")>>)
                                /\ metadata' = e.metadata
                                /\ exportLog' = eng.log
                                /\ session' = eng.session
                                /\ sessionCancelled' = FALSE
            /\ UNCHANGED <<window, runPending>>
       ELSE /\ windowed' = windowedFlag(mode)
            /\ IF ~KeyIn(opts, K_file)
               THEN \* KeyError in initWithOpts_forMode_, after the nib was instantiated
                    /\ script' = "nib"
                    /\ window' = "hidden"
                    /\ runPending' = FALSE
                    /\ last' = [Last("applicationDidFinishLaunching_",
                                     <<Ev("instantiateNib")>>) EXCEPT !.raised = TRUE]
               ELSE IF ~KeyIn(opts, K_activate)
               THEN \* KeyError on opts['activate'], after the window was shown
                    /\ script' = "ready"
                    /\ window' = "shown"
                    /\ runPending' = FALSE
                    /\ last' = [Last("applicationDidFinishLaunching_",
                                     <<Ev("instantiateNib"), Ev("initScript"),
                                       Ev("showWindow")>>) EXCEPT !.raised = TRUE]
               ELSE /\ script' = "ready"
                    /\ window' = "shown"
                    /\ runPending' = TRUE
                    /\ last' = Last("applicationDidFinishLaunching_",
                                    <<Ev("instantiateNib"), Ev("initScript"),
                                      Ev("showWindow")>>
                                    \o (IF Truthy(opts.v[K_activate])
                                        THEN <<Ev("activate")>> ELSE <<>>)
                                    \o <<Ev("callAfter")>>)
            /\ UNCHANGED <<opts, metadata, exportLog, session, sessionCancelled>>
    /\ UNCHANGED <<pc, stdinLine, mode, exitStatus, delegate, runs, animationTimer,
                   pipe, stdiobuf, eof, armed, sent, cancelCalls>>

\* height of the status footer added to the window's content height
FooterHeight == 22

\* attributes every Python dict object has, among them no key of the dict
DictAttributes == {"get", "has_key", "items", "keys", "update", "values"}

\* hasattr(ns, name) on the engine's namespace, which runScript subscripts
\* like a dict: an attribute lookup, which never looks at the dict's keys
hasattr(ns, name) == name \in DictAttributes

\* the namespace the engine leaves after a run: WIDTH and HEIGHT hold the
\* canvas size, the one the script declared or the engine's default
DeclaredSize == [WIDTH |-> 30, HEIGHT |-> 20]
DefaultSize == [WIDTH |-> 50, HEIGHT |-> 50]
NamespaceAfterRun(declared) == IF declared THEN DeclaredSize ELSE DefaultSize

\* the tail of runScript after the engine's run: first_run and the resize
resizeAfterRun(ns, showFooter) ==
    LET first_run == ~(hasattr(ns, "WIDTH") \/ hasattr(ns, "HEIGHT"))
        cw == ns["WIDTH"]
        ch == ns["HEIGHT"] + (IF showFooter THEN FooterHeight ELSE 0)
    IN  [resized |-> first_run, size |-> IF first_run THEN <<cw, ch>> ELSE <<>>]

\* NodeBoxScript.runScript: the deferred first run, then runs asked by the user;
\* the engine may start an animation loop; the script may or may not declare a
\* size, and the user may have toggled the status footer
runScript ==
    /\ pc = "loop"
    /\ script = "ready"
    /\ window = "shown"
    /\ runs < MaxRuns
    /\ runPending \/ runs > 0
    /\ runPending' = FALSE
    /\ runs' = runs + 1
    /\ metadata' = opts
    /\ \E animated \in BOOLEAN : animationTimer' = animated
    /\ \E declared \in BOOLEAN, showFooter \in BOOLEAN :
          LET ns == NamespaceAfterRun(declared)
              resize == resizeAfterRun(ns, showFooter)
              fx == IF resize.resized THEN <<Ev("setContentSize")>> ELSE <<>>
          IN  last' = [Last("runScript", <<Ev("vm.run")>> \o fx) EXCEPT
                          !.args = <<declared>> \o resize.size]
    /\ UNCHANGED <<pc, stdinLine, opts, mode, exitStatus, delegate, launched, script,
                   windowed, window, session, sessionCancelled, exportLog, pipe,
                   stdiobuf, eof, armed, sent, cancelCalls>>

\* NodeBoxScript._export, called by the document for an export asked in the window
Export_(kind, fname, overrides) ==
    /\ pc = "loop"
    /\ script = "ready"
    /\ windowed
    /\ window = "shown"
    /\ exportLog.count < MaxExports
    /\ LET merged == mergeOpts(opts, fname, overrides)
           e == export(merged)
           eng == EngineExport(exportLog, e.call)
           stop == IF animationTimer THEN <<Ev("stopScript")>> ELSE <<>>
       IN  /\ animationTimer' = IF animationTimer THEN StopScript(animationTimer)
                                ELSE animationTimer
           /\ opts' = e.stored
           /\ IF e.raised
              THEN /\ last' = [Last("_export", stop) EXCEPT
                                 !.raised = TRUE, !.hadTimer = animationTimer,
                                 !.args = <<kind, fname, overrides>>]
                   /\ UNCHANGED <<metadata, exportLog, session, sessionCancelled>>
              ELSE /\ last' = [Last("_export", stop \o <<Ev("vm.export")>>) EXCEPT
                                 !.hadTimer = animationTimer, !.args = <<kind, fname, overrides>>]
                   /\ metadata' = e.metadata
                   /\ exportLog' = eng.log
                   /\ session' = eng.session
                   /\ sessionCancelled' = FALSE
    /\ UNCHANGED <<pc, stdinLine, mode, exitStatus, delegate, launched, script, windowed,
                   window, runPending, runs, pipe, stdiobuf, eof, armed, sent,
                   cancelCalls>>

\* the engine reports the result of the export in progress to exportStatus
ExportStatus(ok, output) ==
    /\ pc = "loop"
    /\ script = "ready"
    /\ session
    /\ LET fx == exportStatus(ok, output)
       IN  /\ last' = [Last("exportStatus", fx) EXCEPT !.ok = ok, !.hadSession = TRUE,
                                                        !.args = output]
           /\ IF Terminates(fx, mode) THEN Terminate ELSE UNCHANGED <<pc, exitStatus>>
    /\ session' = FALSE
    /\ sessionCancelled' = FALSE
    /\ UNCHANGED <<stdinLine, opts, mode, delegate, launched, script, windowed, window,
                   runPending, runs, animationTimer, metadata, exportLog, pipe, stdiobuf,
                   eof, armed, sent, cancelCalls>>

\* NodeBoxScript.windowWillClose_
windowWillClose_ ==
    /\ pc = "loop"
    /\ window = "shown"
    /\ window' = "closed"
    /\ Terminate
    /\ last' = Last("windowWillClose_", <<Ev("terminate")>>)
    /\ UNCHANGED <<stdinLine, opts, mode, delegate, launched, script, windowed,
                   runPending, runs, animationTimer, session, sessionCancelled, metadata,
                   exportLog, pipe, stdiobuf, eof, armed, sent, cancelCalls>>

\* ------------------------------------------------------------------------
\* Standard input after startup and the interrupt watcher
\* ------------------------------------------------------------------------
\* the supervising process writes one more line
Arrive(line) ==
    /\ pc = "loop"
    /\ ~eof
    /\ sent.lines < MaxLines
    /\ pipe' = Append(pipe, line)
    /\ sent' = [lines |-> sent.lines + 1,
                cancels |-> sent.cancels + (IF Contains(line, L_cancel) THEN 1 ELSE 0)]
    /\ UNCHANGED <<pc, stdinLine, opts, mode, exitStatus, delegate, launched, script,
                   windowed, window, runPending, runs, animationTimer, session,
                   sessionCancelled, metadata, exportLog, stdiobuf, eof, armed,
                   cancelCalls, last>>

\* the supervising process closes its end of the pipe
CloseStdin ==
    /\ pc = "loop"
    /\ ~eof
    /\ eof' = TRUE
    /\ UNCHANGED <<pc, stdinLine, opts, mode, exitStatus, delegate, launched, script,
                   windowed, window, runPending, runs, animationTimer, session,
                   sessionCancelled, metadata, exportLog, pipe, stdiobuf, armed, sent,
                   cancelCalls, last>>

\* select.select([sys.stdin.fileno()], [], [], 0): the descriptor is readable
Readable(p, closed) == Len(p) > 0 \/ closed

\* sys.stdin.readline(): a line of the file object's buffer when it holds one,
\* otherwise one read of the descriptor fills the buffer with all it has;
\* the empty string at end of file
ReadLine(buf, p) ==
    IF Len(buf) > 0 THEN [line |-> Head(buf), buf |-> Tail(buf), pipe |-> p]
    ELSE IF Len(p) > 0 THEN [line |-> Head(p), buf |-> Tail(p), pipe |-> <<>>]
    ELSE [line |-> <<>>, buf |-> buf, pipe |-> p]

\* 'CANCEL' in line
IsCancel(line) == Contains(Strip(line), L_cancel)

\* ScriptAppDelegate.catchInterrupts_, run for a data-available notification
catchInterrupts_ ==
    /\ pc = "loop"
    /\ armed
    /\ Readable(pipe, eof)
    /\ LET r == ReadLine(stdiobuf, pipe)
       IN  /\ stdiobuf' = r.buf
           /\ pipe' = r.pipe
           /\ IF ~IsCancel(r.line)
              THEN /\ armed' = TRUE
                   /\ last' = [Last("catchInterrupts_",
                                    <<Ev("waitForDataInBackgroundAndNotify")>>)
                                  EXCEPT !.wasLaunched = launched, !.args = r.line]
                   /\ UNCHANGED <<pc, exitStatus, cancelCalls, animationTimer,
                                  sessionCancelled>>
              ELSE IF script = "none"
              THEN \* AttributeError: the script outlet is still None; the handler
                   \* ends before it registers again
                   /\ armed' = FALSE
                   /\ cancelCalls' = cancelCalls
                   /\ last' = [Last("catchInterrupts_", <<>>)
                                  EXCEPT !.wasLaunched = launched, !.raised = TRUE,
                                         !.args = r.line]
                   /\ UNCHANGED <<pc, exitStatus, animationTimer, sessionCancelled>>
              ELSE LET fx == cancel(session, animationTimer, windowed)
                       quits == Terminates(fx, mode)
                   IN  /\ cancelCalls' = cancelCalls + 1
                       /\ sessionCancelled' = (sessionCancelled \/ session)
                       /\ animationTimer' = IF animationTimer
                                            THEN StopScript(animationTimer)
                                            ELSE animationTimer
                       /\ armed' = ~quits
                       /\ last' = [Last("catchInterrupts_",
                                        <<Ev("cancel")>> \o fx \o
                                        (IF quits THEN <<>> ELSE
                                         <<Ev("waitForDataInBackgroundAndNotify")>>))
                                      EXCEPT !.wasLaunched = launched,
                                             !.hadSession = session,
                                             !.hadTimer = animationTimer,
                                             !.args = r.line]
                       /\ IF quits THEN Terminate ELSE UNCHANGED <<pc, exitStatus>>
    /\ UNCHANGED <<stdinLine, opts, mode, delegate, launched, script, windowed, window,
                   runPending, runs, session, metadata, exportLog, eof, sent>>

\* ------------------------------------------------------------------------
\* The launcher
\* ------------------------------------------------------------------------
ExportNames == {F_png, F_mov, F_bare}
ExportKinds == {"image", "movie"}
NoOverrides == PyDict(EmptyDict)
\* overrides that hold an export key and a format key
FullOverrides ==
    PyDict([k \in {K_export, K_format} |->
               IF k = K_export THEN PyStr(F_mov) ELSE PyStr(Ext_pdf)])
\* overrides that set the format key again
FormatOverrides == PyDict([k \in {K_format} |-> PyStr(Ext_gif)])
Overrides == {NoOverrides, FullOverrides, FormatOverrides}
\* the calls of _export the document makes: a kind that agrees or disagrees with
\* the extension, a name without extension, overrides of each sort
ExportRequests ==
    { <<"image", F_png, NoOverrides>>, <<"movie", F_png, FullOverrides>>,
      <<"image", F_mov, FormatOverrides>>, <<"image", F_bare, NoOverrides>> }

Next ==
    \/ Main
    \/ applicationDidFinishLaunching_
    \/ runScript
    \/ \E r \in ExportRequests : Export_(r[1], r[2], r[3])
    \/ \E ok \in BOOLEAN, output \in StatusOutputs : ExportStatus(ok, output)
    \/ windowWillClose_
    \/ \E line \in LaterLines : Arrive(line)
    \/ CloseStdin
    \/ catchInterrupts_

Spec == Init /\ [][Next]_vars

\* ------------------------------------------------------------------------
\* Progress reports of an export
\* ------------------------------------------------------------------------
width == 20

\* variant: the quotient is taken before the product, width*(written/total)
progressMsgQuotientFirst(written, total, cancelled) ==
    IF cancelled THEN Msg("Cancelling export...")
    ELSE LET pct == width * (written \div total)
             dots == Repeat("#", pct) \o Repeat(".", width - pct)
         IN  IF total = written THEN Msg("Finishing export...")
             ELSE [eraser |-> FALSE, text |-> "\\rGenerating %i frames [%s]",
                   total |-> total, dots |-> dots]

\* NodeBoxScript.exportProgress: the string written to STDERR after ERASER
progressMsg(written, total, cancelled) ==
    IF cancelled THEN Msg("Cancelling export...")
    ELSE LET pct == (width * written) \div total
             dots == Repeat("#", pct) \o Repeat(".", width - pct)
         IN  IF total = written THEN Msg("Finishing export...")
             ELSE [eraser |-> FALSE, text |-> "\\rGenerating %i frames [%s]",
                   total |-> total, dots |-> dots]

exportProgress(written, total, cancelled) ==
    <<Write("stderr", [progressMsg(written, total, cancelled) EXCEPT !.eraser = TRUE]),
      Flush("stderr")>>

\* the engine reports the progress of the export in progress
ExportProgress(written, total, cancelled) ==
    /\ pc = "loop"
    /\ script = "ready"
    /\ session
    /\ last' = [Last("exportProgress", exportProgress(written, total, cancelled))
                   EXCEPT !.hadSession = TRUE, !.args = <<written, total, cancelled>>]
    /\ UNCHANGED <<pc, stdinLine, opts, mode, exitStatus, delegate, launched, script,
                   windowed, window, runPending, runs, animationTimer, session,
                   sessionCancelled, metadata, exportLog, pipe, stdiobuf, eof, armed,
                   sent, cancelCalls>>

\* a headless movie export in progress: the state after Main and
\* applicationDidFinishLaunching_ for this first line
ProgressLine == Obj2(FileP, ExportP(TStr(F_gif)))

InitProgress ==
    LET o == JsonLoads(ProgressLine).value
        e == export(o)
    IN  /\ pc = "loop"
        /\ stdinLine = ProgressLine
        /\ opts = o
        /\ mode = ModeOf(o)
        /\ exitStatus = -1
        /\ delegate = TRUE
        /\ launched = TRUE
        /\ script = "ready"
        /\ windowed = FALSE
        /\ window = "none"
        /\ runPending = FALSE
        /\ runs = 0
        /\ animationTimer = FALSE
        /\ session = TRUE
        /\ sessionCancelled = FALSE
        /\ metadata = e.metadata
        /\ exportLog = EngineExport([count |-> 0, call |-> NoCall], e.call).log
        /\ pipe = <<>>
        /\ stdiobuf = <<>>
        /\ eof = FALSE
        /\ armed = TRUE
        /\ sent = [lines |-> 0, cancels |-> 0]
        /\ cancelCalls = 0
        /\ last = Last("applicationDidFinishLaunching_", <<Ev("initScript"), Ev("vm.export")>>)

NextProgress ==
    \E total \in 1..MaxTotal, cancelled \in BOOLEAN :
        \E written \in 0..total : ExportProgress(written, total, cancelled)

SpecProgress == InitProgress /\ [][NextProgress]_vars

\* TLC refutes this under Spec: the starting state of SpecProgress is a state the
\* launcher reaches
ProgressStateUnreached == ~InitProgress

\* ------------------------------------------------------------------------
\* Properties of startup
\* ------------------------------------------------------------------------
\* the export field of a first line that is valid JSON, read off the parsed value:
\* "absent", "empty" (the empty string, false or null) or "nonempty"
ExportField(line) ==
    LET x == JsonLoads(line).value
    IN  IF x.t # "dict" THEN "absent"
        ELSE IF K_export \notin DOMAIN x.v THEN "absent"
        ELSE IF x.v[K_export].t \in {"false", "none"} THEN "empty"
        ELSE IF x.v[K_export].t = "str" /\ Len(x.v[K_export].v) = 0 THEN "empty"
        ELSE "nonempty"

Started == pc # "main"
ValidJson == JsonLoads(stdinLine).ok

C2_MalformedExitsBeforeLoop ==
    (Started /\ stdinLine \in MalformedLines \cup IncompleteLines) =>
        /\ pc = "exited"
        /\ exitStatus > 0
        /\ ~delegate
        /\ ~launched
        /\ ~armed
        /\ last.op = "main"

C2_Witness ==
    /\ stdinLine = <<>>
    /\ pc = "exited"
    /\ exitStatus = 1
    /\ ~delegate

\* C3: when the first line is a JSON object without the export field, startup
\* ends as for an unparseable line: the "bad args" diagnostic is printed on
\* standard output and the process exits with a non-zero status.
C3_AbsentExportIsBadArgs ==
    (Started /\ ValidJson /\ JsonLoads(stdinLine).value.t = "dict"
       /\ ExportField(stdinLine) = "absent") =>
        /\ pc = "exited"
        /\ exitStatus > 0
        /\ last.fx = <<Write("stdout", Msg("bad args"))>>

\* ------------------------------------------------------------------------
\* Properties of termination and cancellation
\* ------------------------------------------------------------------------
\* position of the first event op in fx, 0 when there is none
FirstEv(fx, op) ==
    IF HasEv(fx, op) THEN CHOOSE i \in 1..Len(fx) :
                              fx[i].op = op /\ \A j \in 1..(i - 1) : fx[j].op # op
    ELSE 0

\* C4: in headless mode, once the engine has reported the result of the export to
\* exportStatus (success or failure) the process has terminated.
C4_HeadlessExportEndsProcess ==
    (mode = "headless" /\ exportLog.count > 0 /\ ~session) => pc = "terminated"

\* C5: whenever the application has launched, the watcher is registered and no
\* unread input is left on the descriptor, cancel() has been called once for
\* each line containing CANCEL that was written after startup, and not otherwise.
C5_CancelOncePerCancelLine ==
    (pc = "loop" /\ launched /\ armed /\ ~eof /\ Len(pipe) = 0) =>
        cancelCalls = sent.cancels

CancelRan == last.op = "catchInterrupts_" /\ HasEv(last.fx, "cancel")

\* C6: a call of cancel() calls the session's cancel exactly when a session
\* exists, and first; then with an animation timer it stops the script, calls no
\* done() and the process keeps running; without one, in windowed mode, it calls
\* done(quit=True) and the process terminates; in headless mode it does nothing more.
C6_CancelBranches ==
    CancelRan =>
        LET fx == last.fx
            rest == SubSeq(fx, (IF last.hadSession THEN 3 ELSE 2), Len(fx))
        IN  /\ HasEv(fx, "session.cancel") <=> last.hadSession
            /\ last.hadSession => fx[2].op = "session.cancel"
            /\ last.hadTimer =>
                   /\ rest[1].op = "stopScript"
                   /\ ~HasEv(fx, "done")
                   /\ ~animationTimer
                   /\ pc = "loop"
            /\ (~last.hadTimer /\ windowed) =>
                   /\ rest = <<DoneEv(TRUE)>>
                   /\ pc = "terminated"
            /\ (~last.hadTimer /\ ~windowed) =>
                   /\ ~HasEv(fx, "done")
                   /\ ~HasEv(fx, "stopScript")
                   /\ pc = "loop"

C6_Witness ==
    /\ CancelRan
    /\ last.hadSession
    /\ last.hadTimer
    /\ HasEv(last.fx, "stopScript")
    /\ windowed

\* a done() call of the last handler, and whether the process ended there
DoneCalled == HasEv(last.fx, "done")
DoneQuit == last.fx[FirstEv(last.fx, "done")].quit
SoftDone == /\ last.op = "exportStatus"
            /\ DoneCalled
            /\ ~DoneQuit
            /\ mode = "windowed"

\* C7 as stated, its last part: in windowed mode, after a done() without quit
\* has left the process running, the process terminates only by the window
\* being closed.
C7_OnlyWindowCloseTerminates ==
    [][(SoftDone /\ pc = "loop" /\ pc' = "terminated") => window' = "closed"]_vars

\* C7 amended: a done(quit) call terminates the process exactly when the mode is
\* headless or quit is true; a windowed done() without quit leaves it running,
\* and a windowed process terminates only by the window being closed or by a
\* cancel() that calls done(quit=True).
C7_DoneTerminatesIffHeadlessOrQuit ==
    /\ [](DoneCalled => (pc = "terminated" <=> (mode = "headless" \/ DoneQuit)))
    /\ [](SoftDone => pc = "loop")
    /\ [][(mode = "windowed" /\ pc = "loop" /\ pc' = "terminated") =>
            \/ window' = "closed" /\ last'.op = "windowWillClose_"
            \/ /\ last'.op = "catchInterrupts_"
               /\ HasEv(last'.fx, "cancel")
               /\ last'.fx[Len(last'.fx)] = DoneEv(TRUE)]_vars

C7_Witness ==
    /\ SoftDone
    /\ pc = "loop"
    /\ window = "shown"

\* C8: when exportStatus is given a failure, every chunk of the status output is
\* written to its stream and that stream flushed, in order, before done() is
\* called as the last step; the process has then terminated in headless mode and
\* is still running with its window shown in windowed mode.
C8_FailureFlushedThenDone ==
    (last.op = "exportStatus" /\ ~last.ok) =>
        LET fx == last.fx
            output == last.args
            d == FirstEv(fx, "done")
            first == d - 2 * Len(output)
        IN  /\ d = Len(fx)
            /\ d > 0
            /\ first > 0
            /\ \A j \in 1..Len(output) :
                   LET stream == IF output[j].isErr THEN "stderr" ELSE "stdout"
                   IN  /\ fx[first + 2 * (j - 1)] = Write(stream, output[j].data)
                       /\ fx[first + 2 * (j - 1) + 1] = Flush(stream)
            /\ mode = "headless" => pc = "terminated"
            /\ mode = "windowed" => pc = "loop" /\ window = "shown"

C8_Witness ==
    /\ last.op = "exportStatus"
    /\ ~last.ok
    /\ Len(last.args) = 2
    /\ mode = "windowed"
    /\ pc = "loop"

\* ------------------------------------------------------------------------
\* Properties of the progress line and of the export kind
\* ------------------------------------------------------------------------
ProgressRan == last.op = "exportProgress"
ProgressText == last.fx[1].data
IsBar(m, k, n) ==
    /\ m.text = "\\rGenerating %i frames [%s]"
    /\ m.total = n
    /\ Len(m.dots) = 20
    /\ \E filled \in 0..20 :
           /\ filled * n <= 20 * k
           /\ 20 * k < (filled + 1) * n
           /\ \A i \in 1..20 : m.dots[i] = IF i <= filled THEN "#" ELSE "."

\* C9 as stated: for a progress update (k, n, cancelled) with n > 0 and
\* 0 <= k <= n, the line written is the 20-cell bar with floor(20*k/n) filled
\* cells first when cancelled is false and k # n, the finishing message when
\* k = n, and the cancelling message when cancelled is true.
C9_FinishingWheneverComplete ==
    ProgressRan =>
        LET k == last.args[1]
            n == last.args[2]
            cancelled == last.args[3]
        IN  /\ (~cancelled /\ k # n) => IsBar(ProgressText, k, n)
            /\ k = n => ProgressText.text = "Finishing export..."
            /\ cancelled => ProgressText.text = "Cancelling export..."

\* C9 amended: the line written is the 20-cell bar with floor(20*k/n) filled
\* cells first when cancelled is false and k # n, the finishing message when
\* cancelled is false and k = n, and the cancelling message whenever cancelled
\* is true, also when k = n; it is written to standard error after ERASER and
\* flushed.
C9_ProgressLine ==
    ProgressRan =>
        LET k == last.args[1]
            n == last.args[2]
            cancelled == last.args[3]
        IN  /\ (~cancelled /\ k # n) => IsBar(ProgressText, k, n)
            /\ (~cancelled /\ k = n) => ProgressText.text = "Finishing export..."
            /\ cancelled => ProgressText.text = "Cancelling export..."
            /\ ProgressText.eraser
            /\ last.fx[1].stream = "stderr"
            /\ last.fx[2] = Flush("stderr")

C9_Witness ==
    /\ ProgressRan
    /\ last.args = <<5, 20, FALSE>>
    /\ ProgressText.dots = Repeat("#", 5) \o Repeat(".", 15)

\* the part of a path after its last dot is one of mov, gif
HasMovieExtension(f) ==
    \E i \in 1..Len(f) :
        /\ f[i] = "."
        /\ \A j \in (i + 1)..Len(f) : f[j] # "."
        /\ SubSeq(f, i + 1, Len(f)) \in {Ext_mov, Ext_gif}

\* C10: whenever export() was called for a stored export path (at launch in
\* headless mode, or from _export), the engine's export was called once by it,
\* with the export path and with kind movie when the path's extension is mov or
\* gif and kind image for every other path.
ExportRan ==
    \/ last.op = "applicationDidFinishLaunching_" /\ mode = "headless" /\ script = "ready"
    \/ last.op = "_export"

C10_KindByExtension ==
    ExportRan =>
        /\ CountEv(last.fx, "vm.export") = 1
        /\ exportLog.call.fname = opts.v[K_export].v
        /\ exportLog.call.kind =
               IF HasMovieExtension(opts.v[K_export].v) THEN "movie" ELSE "image"

\* ------------------------------------------------------------------------
\* Properties of the launch
\* ------------------------------------------------------------------------
LaunchRan == last.op = "applicationDidFinishLaunching_"
\* position of the only event op in fx, 0 when there is none or several
OnlyEv(fx, op) == IF CountEv(fx, op) = 1 THEN FirstEv(fx, op) ELSE 0
HasDot(f) == \E i \in 1..Len(f) : f[i] = "."

\* C11: after applicationDidFinishLaunching_, in headless mode (options with a
\* file and an export path that has an extension) the controller is constructed,
\* exactly one export was started and no window exists; in windowed mode, for
\* every options object with a file and an empty export field, no export was
\* started, the window is shown, and one deferred run was scheduled after the
\* window was shown.
C11_LaunchByMode ==
    (LaunchRan /\ KeyIn(opts, K_file)) =>
        /\ (mode = "headless" /\ HasDot(opts.v[K_export].v)) =>
               /\ script = "ready"
               /\ CountEv(last.fx, "vm.export") = 1
               /\ exportLog.count = 1
               /\ window = "none"
               /\ ~HasEv(last.fx, "showWindow")
        /\ mode = "windowed" =>
               /\ ~HasEv(last.fx, "vm.export")
               /\ exportLog.count = 0
               /\ window = "shown"
               /\ OnlyEv(last.fx, "showWindow") > 0
               /\ OnlyEv(last.fx, "callAfter") > OnlyEv(last.fx, "showWindow")
               /\ runPending

\* ------------------------------------------------------------------------
\* Properties of runScript
\* ------------------------------------------------------------------------
RunRan == last.op = "runScript"
Resized == RunRan /\ HasEv(last.fx, "setContentSize")
ScriptDeclaredSize == last.args[1]

\* C12: the window is resized only by the first run and only when the script
\* declared no size: a run after the first never resizes, and no run of a script
\* that declares its width and height resizes.
C12_ResizeOnlyOnFirstUndeclaredRun ==
    Resized => (runs = 1 /\ ~ScriptDeclaredSize)

\* ------------------------------------------------------------------------
\* Properties of the interrupt watcher
\* ------------------------------------------------------------------------
WatcherRan == last.op = "catchInterrupts_"
Registration == "waitForDataInBackgroundAndNotify"

\* C13: every run of catchInterrupts_ after the launch that leaves the process
\* running ends with exactly one new registration of the watcher, whatever the
\* line held, and the watcher is armed afterwards.
C13_WatcherRearmed ==
    (WatcherRan /\ last.wasLaunched /\ pc = "loop") =>
        /\ armed
        /\ CountEv(last.fx, Registration) = 1
        /\ last.fx[Len(last.fx)].op = Registration

\* C16: whenever catchInterrupts_ has read a line that holds CANCEL, the script
\* controller existed: the call of cancel() never met a missing controller.
C16_CancelMeetsController ==
    (WatcherRan /\ IsCancel(last.args)) => (~last.raised /\ script # "none")

\* ------------------------------------------------------------------------
\* Properties of the stored options
\* ------------------------------------------------------------------------
ExportCalled == last.op = "_export"
GivenKind == last.args[1]
GivenName == last.args[2]
GivenOverrides == last.args[3]

\* after is before with the overrides ov merged in and the export key set to fname
MergedInto(before, after, fname, ov) ==
    /\ DOMAIN after.v = (DOMAIN before.v \cup DOMAIN ov.v) \cup {K_export}
    /\ after.v[K_export] = PyStr(fname)
    /\ \A k \in DOMAIN after.v \ {K_export} :
          after.v[k] = IF k \in DOMAIN ov.v THEN ov.v[k] ELSE before.v[k]

\* C14: once the options are read at startup, a step changes the stored options
\* only if it is a call of _export, and then the new options are the old ones
\* with that call's overrides merged in and the export key set to the call's
\* fname; after any _export the export key is the fname of that call, also when
\* the overrides hold an export key.
C14_OptionsAreMergedOverrides ==
    /\ [](ExportCalled => opts.v[K_export] = PyStr(GivenName))
    /\ [][(pc = "loop" /\ opts' # opts) =>
             /\ ExportCalled'
             /\ MergedInto(opts, opts', GivenName', GivenOverrides')]_vars

\* two exports were made, the second by a call whose overrides hold an export
\* key that differs from the call's fname
C14_Witness ==
    /\ ExportCalled
    /\ GivenOverrides = FullOverrides
    /\ GivenName = F_png
    /\ opts.v[K_export] = PyStr(F_png)
    /\ opts.v[K_format] = PyStr(Ext_pdf)
    /\ exportLog.count = 2
    /\ exportLog.call.fname = F_png

\* ------------------------------------------------------------------------
\* Properties of the mode
\* ------------------------------------------------------------------------
\* C15: once the event loop runs, no step changes the delegate's mode; once a
\* controller is initialised, its windowed flag says whether the mode is
\* "windowed" and no step changes it, whatever the export key of the options
\* has become.
C15_ModeIsFixedAtStartup ==
    /\ [](script # "none" => windowed = (mode = "windowed"))
    /\ [][pc = "loop" => mode' = mode]_vars
    /\ [][script # "none" => windowed' = windowed]_vars

\* a windowed process whose options hold a non-empty export target after _export
C15_Witness ==
    /\ ExportCalled
    /\ Truthy(opts.v[K_export])
    /\ ModeOf(opts) = "headless"
    /\ mode = "windowed"
    /\ windowed

\* ------------------------------------------------------------------------
\* Properties of cancel in headless mode
\* ------------------------------------------------------------------------
HeadlessCancel == CancelRan /\ mode = "headless"

KindOfName(f) == IF HasMovieExtension(f) THEN "movie" ELSE "image"

\* C18: a call of _export in windowed mode stops the script first exactly when
\* an animation timer is set, then calls the engine's export, once, with the
\* call's fname and with the kind that fname's extension gives, whatever kind
\* the call was given.
C18_ExportStopsThenExportsOnce ==
    (ExportCalled /\ windowed) =>
        /\ last.fx = (IF last.hadTimer THEN <<Ev("stopScript")>> ELSE <<>>)
                       \o <<Ev("vm.export")>>
        /\ CountEv(last.fx, "vm.export") = 1
        /\ exportLog.call.fname = GivenName
        /\ exportLog.call.kind = KindOfName(GivenName)

\* ------------------------------------------------------------------------
\* Properties of export
\* ------------------------------------------------------------------------
\* x is the part of the path f after its last dot
IsExtensionOf(x, f) ==
    \E i \in 1..Len(f) :
        /\ f[i] = "."
        /\ x = SubSeq(f, i + 1, Len(f))
        /\ \A j \in 1..Len(x) : x[j] # "."

\* C19: a call of export() leaves the stored options as they were when it was
\* called: the launch of a headless process changes no stored option, a call of
\* _export changes them only by its own merge, and after an export that reached
\* the engine the dict handed over as vm.metadata and to vm.export is the stored
\* options with the format key set to the extension of the export path, a key
\* the stored options get from no export().
C19_ExportLeavesStoredOptions ==
    /\ [][(~launched /\ launched') => opts' = opts]_vars
    /\ [][(last'.op = "_export" /\ exportLog' # exportLog) =>
             MergedInto(opts, opts', last'.args[2], last'.args[3])]_vars
    /\ []((ExportRan /\ ~last.raised) =>
             /\ exportLog.call.opts = metadata
             /\ DOMAIN metadata.v = DOMAIN opts.v \cup {K_format}
             /\ IsExtensionOf(metadata.v[K_format].v, opts.v[K_export].v)
             /\ \A k \in DOMAIN opts.v \ {K_format} : metadata.v[k] = opts.v[k])

\* a headless launch has exported with a format key that the stored options lack
C19_Witness ==
    /\ LaunchRan
    /\ mode = "headless"
    /\ exportLog.count = 1
    /\ KeyIn(metadata, K_format)
    /\ ~KeyIn(opts, K_format)

====
